---- MODULE Spec2Model ----
(***************************************************************************)
(* Model of src/index.js: the session state kept in the module-level       *)
(* variables sock, qrCodeData, isConnected and connectionStatus, the       *)
(* connection.update handler registered by connectToWhatsApp, and the      *)
(* HTTP handlers /initialize, /groups, /publish and /logout.  Every await  *)
(* of the source is a point where other handlers, timers and transport     *)
(* events may run, so each handler is cut into one action per segment      *)
(* between awaits.                                                         *)
(***************************************************************************)
EXTENDS Integers, Sequences, FiniteSets, TLC

\* ---------------------------------------------------------------- bounds
\* Number of connectToWhatsApp invocations (hence transport instances) a run may make.
MaxTransports == 2
\* Number of distinct pairing codes a transport may emit.
NumCodes == 1
\* Number of concurrent POST /initialize requests.
NumInitReqs == 2
\* Number of POST /logout calls the logout client makes one after the other.
MaxLogoutCalls == 2

\* Longest recipients list of a POST /publish body of the publish specification.
MaxRecipients == 3
\* longest enumerated phone number string
MaxLen == 4

\* ------------------------------------------------------ program constants
\* while (... attempts < 20 ...) in POST /initialize
MaxAttempts == 20
\* DisconnectReason.loggedOut
loggedOut == 401
\* some other DisconnectReason (connectionLost)
connectionLost == 408
\* lastDisconnect?.error?.output?.statusCode is undefined
NoReason == 0
\* null, for sock and qrCodeData
Null == 0

Transports == 1..MaxTransports
Codes == 1..NumCodes
InitReqs == 1..NumInitReqs
Reasons == {loggedOut, connectionLost, NoReason}

VARIABLES
    sock,              \* let sock: Null or the transport instance it refers to
    qrCodeData,        \* let qrCodeData: Null or a pairing code
    isConnected,       \* let isConnected
    connectionStatus,  \* let connectionStatus
    authDir,           \* the auth_info directory: "absent", "empty" or "creds"
    transport,         \* state of each transport instance made by makeWASocket
    bgConnect,         \* connectToWhatsApp calls nobody awaits, per await they are at
    timers,            \* pending setTimeout(() => connectToWhatsApp(), 3000)
    initReq,           \* the POST /initialize requests
    logoutReq,         \* the client of POST /logout
    groupsReq,         \* a GET /groups request
    pubReq             \* a POST /publish request

session == <<sock, qrCodeData, isConnected, connectionStatus>>
dispatch == <<groupsReq, pubReq>>
vars == <<sock, qrCodeData, isConnected, connectionStatus, authDir, transport,
          bgConnect, timers, initReq, logoutReq, groupsReq, pubReq>>

\* ------------------------------------------------------------ transports
Live(t) == transport[t] \in {"connecting", "open"}
LiveTransports == {t \in Transports : Live(t)}
Allocated == {t \in Transports : transport[t] # "unallocated"}
\* makeWASocket returns a fresh instance
NewTransport == Cardinality(Allocated) + 1

\* connectToWhatsApp invocations made so far: finished, suspended or scheduled
Invocations ==
    Cardinality(Allocated) + bgConnect.auth + bgConnect.version + timers
    + Cardinality({r \in InitReqs : initReq[r].pc \in {"connAuth", "connVersion"}})
CanInvoke == Invocations < MaxTransports

\* ------------------------------------------- connection.update handler
\* if (qr) { qrCodeData = qr; connectionStatus = 'qr_ready' }
OnQr(s, qr) ==
    IF qr # Null THEN [s EXCEPT !.qr = qr, !.status = "qr_ready"] ELSE s

\* connection === 'close' branch, state part
OnClose(s) ==
    [s EXCEPT !.conn = FALSE, !.status = "disconnected", !.qr = Null]

\* the open branch without its line 56
OnOpenKeepQr(s) ==
    [s EXCEPT !.conn = TRUE, !.status = "connected"]

\* connection === 'open' branch
OnOpen(s) ==
    [s EXCEPT !.conn = TRUE, !.status = "connected", !.qr = Null]

\* const shouldReconnect = lastDisconnect?.error?.output?.statusCode !== DisconnectReason.loggedOut
shouldReconnect(update) ==
    update.connection = "close" /\ update.statusCode # loggedOut

\* the whole handler, as a function of the session variables
ConnectionUpdate(s, update) ==
    LET s1 == OnQr(s, update.qr)
    IN  CASE update.connection = "close" -> OnClose(s1)
          [] update.connection = "open"  -> OnOpen(s1)
          [] OTHER                       -> s1

Session == [qr |-> qrCodeData, status |-> connectionStatus, conn |-> isConnected]

\* the handler run on an update: assigns the session variables and timers
Handle(update) ==
    LET s == ConnectionUpdate(Session, update)
    IN  /\ qrCodeData' = s.qr
        /\ connectionStatus' = s.status
        /\ isConnected' = s.conn
        /\ timers' = IF shouldReconnect(update) THEN timers + 1 ELSE timers

Update(qr, connection, statusCode) ==
    [qr |-> qr, connection |-> connection, statusCode |-> statusCode]

\* a request that has not arrived
IdleGroups == [pc |-> "idle", on |-> Null, result |-> "none"]
IdlePublish ==
    [pc |-> "idle", body |-> <<>>, i |-> 0, results |-> <<>>, sends |-> <<>>,
     result |-> "none"]

\* ------------------------------------------------------------------ Init
\* State after the module is loaded: lines 13-16, and the auto-connect of
\* lines 252-255 when the auth directory exists.
Init ==
    /\ sock = Null
    /\ qrCodeData = Null
    /\ isConnected = FALSE
    /\ connectionStatus = "disconnected"
    /\ authDir \in {"absent", "empty", "creds"}
    /\ transport = [t \in Transports |-> "unallocated"]
    /\ bgConnect = [auth |-> IF authDir # "absent" THEN 1 ELSE 0, version |-> 0]
    /\ timers = 0
    /\ initReq = [r \in InitReqs |->
                    [pc |-> "idle", attempts |-> 0, result |-> "none", tr |-> Null]]
    /\ logoutReq = [pc |-> "idle", t |-> Null, results |-> <<>>]
    /\ groupsReq = IdleGroups
    /\ pubReq = IdlePublish

\* ------------------------------------------------------ transport events
\* The transport emits { qr } while it is pairing.
TransportQr(t, code) ==
    /\ UNCHANGED dispatch
    /\ transport[t] = "connecting"
    /\ Handle(Update(code, "none", NoReason))
    /\ UNCHANGED <<sock, authDir, transport, bgConnect, initReq, logoutReq>>

\* The transport emits { connection: 'open' }.
TransportOpen(t) ==
    /\ UNCHANGED dispatch
    /\ transport[t] = "connecting"
    /\ transport' = [transport EXCEPT ![t] = "open"]
    /\ Handle(Update(Null, "open", NoReason))
    /\ UNCHANGED <<sock, authDir, bgConnect, initReq, logoutReq>>

\* The transport emits { connection: 'close', lastDisconnect } and ends.
TransportClose(t, reason) ==
    /\ UNCHANGED dispatch
    /\ Live(t)
    /\ reason # loggedOut => CanInvoke
    /\ transport' = [transport EXCEPT ![t] = "closed"]
    /\ Handle(Update(Null, "close", reason))
    /\ UNCHANGED <<sock, authDir, bgConnect, initReq, logoutReq>>

\* sock.ev.on('creds.update', saveCreds): the credentials are written into authDir
saveCreds(dir) == IF dir = "absent" THEN "absent" ELSE "creds"

CredsUpdate(t) ==
    /\ UNCHANGED dispatch
    /\ Live(t)
    /\ authDir' = saveCreds(authDir)
    /\ UNCHANGED <<session, transport, bgConnect, timers, initReq, logoutReq>>

\* ------------------------------------------------------ connectToWhatsApp
\* await useMultiFileAuthState(authDir): the directory is made when missing
useMultiFileAuthState(dir) == IF dir = "absent" THEN "empty" ELSE dir

\* sock = makeWASocket(...), and the handlers are registered on it
makeWASocket ==
    /\ sock' = NewTransport
    /\ transport' = [transport EXCEPT ![NewTransport] = "connecting"]

\* setTimeout(() => connectToWhatsApp(), 3000) fires
TimerFire ==
    /\ UNCHANGED dispatch
    /\ timers > 0
    /\ timers' = timers - 1
    /\ bgConnect' = [bgConnect EXCEPT !.auth = @ + 1]
    /\ UNCHANGED <<session, authDir, transport, initReq, logoutReq>>

\* a connectToWhatsApp nobody awaits (timer, start-up) passes its first await
BgConnectAuth ==
    /\ UNCHANGED dispatch
    /\ bgConnect.auth > 0
    /\ bgConnect' = [auth |-> bgConnect.auth - 1, version |-> bgConnect.version + 1]
    /\ authDir' = useMultiFileAuthState(authDir)
    /\ UNCHANGED <<session, transport, timers, initReq, logoutReq>>

\* ... passes its second await and allocates the transport
BgConnectAlloc ==
    /\ UNCHANGED dispatch
    /\ bgConnect.version > 0
    /\ bgConnect' = [bgConnect EXCEPT !.version = @ - 1]
    /\ makeWASocket
    /\ UNCHANGED <<qrCodeData, isConnected, connectionStatus, authDir, timers,
                   initReq, logoutReq>>

\* -------------------------------------------------------- POST /initialize
\* while (!qrCodeData && attempts < 20 && connectionStatus !== 'connected')
LoopContinues(attempts) ==
    /\ qrCodeData = Null
    /\ attempts < MaxAttempts
    /\ connectionStatus # "connected"

\* lines 81-87 without the isConnected branch
InitResponseNoConnected ==
    IF qrCodeData # Null THEN "qr_ready" ELSE "failed"

\* lines 81-87: the response sent after the loop
InitResponse ==
    IF isConnected THEN "connected"
    ELSE IF qrCodeData # Null THEN "qr_ready"
    ELSE "failed"

\* the loop test and what follows it, for a request that has polled `attempts` times
AfterPoll(req, attempts) ==
    IF LoopContinues(attempts)
    THEN [req EXCEPT !.pc = "polling", !.attempts = attempts]
    ELSE [req EXCEPT !.pc = "done", !.attempts = 0, !.result = InitResponse]

\* lines 66-72, up to the first await inside connectToWhatsApp
InitializeStart(r) ==
    /\ UNCHANGED dispatch
    /\ initReq[r].pc = "idle"
    /\ IF sock # Null /\ isConnected
       THEN /\ initReq' = [initReq EXCEPT ![r].pc = "done", ![r].result = "already"]
            /\ UNCHANGED <<session>>
       ELSE /\ CanInvoke
            /\ qrCodeData' = Null
            /\ connectionStatus' = "initializing"
            /\ initReq' = [initReq EXCEPT ![r].pc = "connAuth"]
            /\ UNCHANGED <<sock, isConnected>>
    /\ UNCHANGED <<authDir, transport, bgConnect, timers, logoutReq>>

\* line 22 inside the awaited connectToWhatsApp
InitializeAuth(r) ==
    /\ UNCHANGED dispatch
    /\ initReq[r].pc = "connAuth"
    /\ authDir' = useMultiFileAuthState(authDir)
    /\ initReq' = [initReq EXCEPT ![r].pc = "connVersion"]
    /\ UNCHANGED <<session, transport, bgConnect, timers, logoutReq>>

\* lines 23-61 and 75-76: the transport is allocated, the loop is entered
InitializeAlloc(r) ==
    /\ UNCHANGED dispatch
    /\ initReq[r].pc = "connVersion"
    /\ makeWASocket
    /\ initReq' = [initReq EXCEPT ![r] = AfterPoll([@ EXCEPT !.tr = NewTransport], 0)]
    /\ UNCHANGED <<qrCodeData, isConnected, connectionStatus, authDir, bgConnect,
                   timers, logoutReq>>

\* lines 77-87 with a time-out that drops the attempt
InitializePollTeardown(r) ==
    /\ UNCHANGED dispatch
    /\ initReq[r].pc = "polling"
    /\ initReq' = [initReq EXCEPT ![r] = AfterPoll(@, @.attempts + 1)]
    /\ IF initReq'[r].result = "failed"
       THEN /\ sock' = Null
            /\ connectionStatus' = "disconnected"
            /\ UNCHANGED <<qrCodeData, isConnected>>
       ELSE UNCHANGED session
    /\ UNCHANGED <<authDir, transport, bgConnect, timers, logoutReq>>

\* lines 77-87: one 500 ms sleep ends
InitializePoll(r) ==
    /\ UNCHANGED dispatch
    /\ initReq[r].pc = "polling"
    /\ initReq' = [initReq EXCEPT ![r] = AfterPoll(@, @.attempts + 1)]
    /\ UNCHANGED <<session, authDir, transport, bgConnect, timers, logoutReq>>

\* ------------------------------------------------------------ POST /logout
\* lines 230-237
LogoutReset ==
    /\ authDir' = "absent"
    /\ isConnected' = FALSE
    /\ connectionStatus' = "disconnected"
    /\ qrCodeData' = Null
    /\ sock' = Null

\* lines 225-226: with a socket, sock.logout() is awaited; without, lines 230-239 run at once
LogoutStart ==
    /\ UNCHANGED dispatch
    /\ logoutReq.pc = "idle"
    /\ Len(logoutReq.results) < MaxLogoutCalls
    /\ IF sock # Null
       THEN /\ logoutReq' = [logoutReq EXCEPT !.pc = "awaitLogout", !.t = sock]
            /\ UNCHANGED <<session, authDir>>
       ELSE /\ LogoutReset
            /\ logoutReq' = [logoutReq EXCEPT !.results = Append(@, "ok")]
    /\ UNCHANGED <<transport, bgConnect, timers, initReq>>

\* sock.logout() resolves: the transport, when live, has ended with the loggedOut
\* reason, its close event has run the handler; then lines 230-239
LogoutResolve ==
    /\ UNCHANGED dispatch
    /\ logoutReq.pc = "awaitLogout"
    /\ transport' = [transport EXCEPT ![logoutReq.t] = "closed"]
    /\ UNCHANGED timers
    /\ LogoutReset
    /\ logoutReq' = [pc |-> "idle", t |-> Null, results |-> Append(logoutReq.results, "ok")]
    /\ UNCHANGED <<bgConnect, initReq>>

\* sock.logout() rejects: lines 240-243
LogoutReject ==
    /\ UNCHANGED dispatch
    /\ logoutReq.pc = "awaitLogout"
    /\ logoutReq' = [pc |-> "idle", t |-> Null, results |-> Append(logoutReq.results, "error")]
    /\ UNCHANGED <<session, authDir, transport, bgConnect, timers, initReq>>

\* -------------------------------------------------------------- GET /groups
\* if (!sock || !isConnected) of lines 117 and 154
NotConnected == sock = Null \/ ~isConnected

\* lines 117-121: the guard, then sock.groupFetchAllParticipating() is awaited
GroupsStart ==
    /\ groupsReq.pc = "idle"
    /\ groupsReq' = IF NotConnected
                    THEN [pc |-> "done", on |-> Null, result |-> "NotConnected"]
                    ELSE [pc |-> "awaitFetch", on |-> sock, result |-> "none"]
    /\ UNCHANGED <<session, authDir, transport, bgConnect, timers, initReq, logoutReq,
                   pubReq>>

\* lines 122-128: the fetch resolves
GroupsResolve ==
    /\ groupsReq.pc = "awaitFetch"
    /\ groupsReq' = [groupsReq EXCEPT !.pc = "done", !.result = "ok"]
    /\ UNCHANGED <<session, authDir, transport, bgConnect, timers, initReq, logoutReq,
                   pubReq>>

\* lines 129-132: the fetch rejects
GroupsReject ==
    /\ groupsReq.pc = "awaitFetch"
    /\ groupsReq' = [groupsReq EXCEPT !.pc = "done", !.result = "error"]
    /\ UNCHANGED <<session, authDir, transport, bgConnect, timers, initReq, logoutReq,
                   pubReq>>

\* ------------------------------------------------------------ POST /publish
\* A string is a sequence of one-character strings; "" is the empty sequence.
Digits == {"0", "1", "2", "3", "4", "5", "6", "7", "8", "9"}
IsDigit(c) == c \in Digits
Suffix == <<"@", "s", ".", "w", "h", "a", "t", "s", "a", "p", "p", ".", "n", "e", "t">>

\* the '00' test of line 141 made before the filter of line 138
formatPhoneNumberPrefixFirst(number) ==
    LET cleaned == IF Len(number) >= 2 /\ number[1] = "0" /\ number[2] = "0"
                   THEN SubSeq(number, 3, Len(number))
                   ELSE number
    IN  SelectSeq(cleaned, IsDigit) \o Suffix

\* lines 136-149
formatPhoneNumber(number) ==
    LET digits == SelectSeq(number, IsDigit)
        cleaned == IF Len(digits) >= 2 /\ digits[1] = "0" /\ digits[2] = "0"
                   THEN SubSeq(digits, 3, Len(digits))
                   ELSE digits
        noPlus == IF Len(cleaned) >= 1 /\ cleaned[1] = "+"
                  THEN SubSeq(cleaned, 2, Len(cleaned))
                  ELSE cleaned
    IN  noPlus \o Suffix

\* the message of lines 172-181 and 194-201
MessageKind(body) ==
    IF body.mediaUrl # ""
    THEN (IF body.mediaType = "video" THEN "video" ELSE "image")
    ELSE "text"

\* line 167 without its test of mode
NumbersBranchAnyMode(body) == Len(body.recipients) > 0

\* mode === 'numbers' && recipients && recipients.length > 0
NumbersBranch(body) == body.mode = "numbers" /\ Len(body.recipients) > 0
\* mode === 'group' && groupId
GroupBranch(body) == body.mode = "group" /\ body.groupId # <<>>

\* 'group', the recipient of the group entry (lines 202 and 205)
GroupLabel == <<"g", "r", "o", "u", "p">>
\* a group id
GroupId1 == <<"g", "1">>

\* the targets the handler goes through, in order
Targets(body) ==
    IF NumbersBranch(body) THEN body.recipients
    ELSE IF GroupBranch(body) THEN <<GroupLabel>>
    ELSE <<>>

\* the address a target's message is sent to
Address(body, i) ==
    IF NumbersBranch(body) THEN formatPhoneNumber(body.recipients[i]) ELSE body.groupId

Failed(recipient) == [recipient |-> recipient, success |-> FALSE]
Succeeded(recipient) == [recipient |-> recipient, success |-> TRUE]

\* results.some in place of results.every
anySuccess(results) == \E k \in 1..Len(results) : results[k].success

\* const allSuccess = results.every(r => r.success)
allSuccess(results) == \A k \in 1..Len(results) : results[k].success

\* lines 209-214
PublishResponse(req) ==
    [req EXCEPT !.pc = "done", !.body = <<>>, !.i = 0,
                !.result = IF allSuccess(req.results) THEN "success" ELSE "someFailed"]

\* the send of target i issued on sock: `dead` when that transport has already
\* closed, `ok` is the outcome of the sendMessage promise
Send(body, i) ==
    [idx |-> i, to |-> Address(body, i), kind |-> MessageKind(body), on |-> sock,
     dead |-> transport[sock] = "closed", ok |-> "pending"]

\* The handler runs from target i until its next await.  With sock null,
\* sock.sendMessage throws a TypeError that the try of the target catches, and the
\* loop goes on at once; otherwise the send is issued on sock and awaited.
\* the loop without the try of line 169: a throw reaches the catch of lines 216-219
RunPublishNoTry(req) ==
    IF req.i > Len(Targets(req.body)) THEN PublishResponse(req)
    ELSE IF sock = Null
    THEN [PublishResponse(req) EXCEPT !.result = "error"]
    ELSE [req EXCEPT !.pc = "awaitSend", !.sends = Append(@, Send(req.body, req.i))]

RECURSIVE RunPublish(_)
RunPublish(req) ==
    IF req.i > Len(Targets(req.body)) THEN PublishResponse(req)
    ELSE IF sock = Null
    THEN RunPublish([req EXCEPT !.i = @ + 1,
                                !.results = Append(@, Failed(Targets(req.body)[req.i]))])
    ELSE [req EXCEPT !.pc = "awaitSend", !.sends = Append(@, Send(req.body, req.i))]

\* the awaited send settles with the given outcome, the target's entry is pushed
Settle(req, outcome) ==
    [req EXCEPT !.i = @ + 1,
                !.sends[Len(req.sends)].ok = outcome,
                !.results = Append(@, IF outcome = "yes"
                                      THEN Succeeded(Targets(req.body)[req.i])
                                      ELSE Failed(Targets(req.body)[req.i]))]

\* lines 154-167, up to the first send
PublishStart(body) ==
    /\ pubReq.pc = "idle"
    /\ pubReq' =
         IF NotConnected THEN [pubReq EXCEPT !.pc = "done", !.result = "NotConnected"]
         ELSE IF body.mode = "" \/ body.caption = ""
         THEN [pubReq EXCEPT !.pc = "done", !.result = "InvalidRequest"]
         ELSE RunPublish([pubReq EXCEPT !.body = body, !.i = 1])
    /\ UNCHANGED <<session, authDir, transport, bgConnect, timers, initReq, logoutReq,
                   groupsReq>>

\* a send resolves: lines 183 and 202, and on to the next target; a send issued
\* on a transport that had closed does not resolve
PublishSendResolve ==
    /\ pubReq.pc = "awaitSend"
    /\ ~pubReq.sends[Len(pubReq.sends)].dead
    /\ pubReq' = RunPublish(Settle(pubReq, "yes"))
    /\ UNCHANGED <<session, authDir, transport, bgConnect, timers, initReq, logoutReq,
                   groupsReq>>

\* a rejected send that is issued once more for the same recipient
PublishSendRejectRetry ==
    /\ pubReq.pc = "awaitSend"
    /\ pubReq' =
         IF sock # Null /\ \A k \in 1..(Len(pubReq.sends) - 1) : pubReq.sends[k].idx # pubReq.i
         THEN [pubReq EXCEPT !.sends = Append([@ EXCEPT ![Len(@)].ok = "no"],
                                              Send(pubReq.body, pubReq.i))]
         ELSE RunPublish(Settle(pubReq, "no"))
    /\ UNCHANGED <<session, authDir, transport, bgConnect, timers, initReq, logoutReq,
                   groupsReq>>

\* a rejected send that ends the loop
PublishSendRejectAbort ==
    /\ pubReq.pc = "awaitSend"
    /\ pubReq' = PublishResponse(Settle(pubReq, "no"))
    /\ UNCHANGED <<session, authDir, transport, bgConnect, timers, initReq, logoutReq,
                   groupsReq>>

\* a send rejects: lines 184-187 and 203-206, and on to the next target
PublishSendReject ==
    /\ pubReq.pc = "awaitSend"
    /\ pubReq' = RunPublish(Settle(pubReq, "no"))
    /\ UNCHANGED <<session, authDir, transport, bgConnect, timers, initReq, logoutReq,
                   groupsReq>>

\* the request bodies of the dispatch specification
Recipient1 == <<"0", "0", "4">>
DispatchBodies ==
    [mode : {"", "numbers", "group"}, recipients : {<<>>, <<Recipient1>>},
     groupId : {<<>>, GroupId1}, caption : {"", "hi"}, mediaUrl : {"", "u"},
     mediaType : {"image"}]

\* ------------------------------------------------------------------ Next
TransportEvents ==
    \/ \E t \in Transports, code \in Codes : TransportQr(t, code)
    \/ \E t \in Transports : TransportOpen(t)
    \/ \E t \in Transports, reason \in Reasons : TransportClose(t, reason)
    \/ \E t \in Transports : CredsUpdate(t)

BackgroundConnect ==
    \/ TimerFire
    \/ BgConnectAuth
    \/ BgConnectAlloc

Initialize(reqs) ==
    \/ \E r \in reqs : InitializeStart(r)
    \/ \E r \in reqs : InitializeAuth(r)
    \/ \E r \in reqs : InitializeAlloc(r)
    \/ \E r \in reqs : InitializePoll(r)

Logout ==
    \/ LogoutStart
    \/ LogoutResolve
    \/ LogoutReject

\* the session lifecycle: transport events, reconnects, /initialize and /logout
Next ==
    \/ TransportEvents
    \/ BackgroundConnect
    \/ Initialize(InitReqs)
    \/ Logout

Spec == Init /\ [][Next]_vars

\* The timers of the event loop fire and the awaits of a connectToWhatsApp that
\* nobody awaits resolve.
Fairness ==
    /\ WF_vars(TimerFire)
    /\ WF_vars(BgConnectAuth)
    /\ WF_vars(BgConnectAlloc)

FairSpec == Spec /\ Fairness

\* the session lifecycle with one /initialize request, and one client that makes
\* one dispatch request, GET /groups or POST /publish
DispatchNext ==
    \/ TransportEvents
    \/ BackgroundConnect
    \/ Initialize({1})
    \/ Logout
    \/ (pubReq.pc = "idle" /\ GroupsStart)
    \/ GroupsResolve
    \/ GroupsReject
    \/ (groupsReq.pc = "idle" /\ \E body \in DispatchBodies : PublishStart(body))
    \/ PublishSendResolve
    \/ PublishSendReject

DispatchSpec == Init /\ [][DispatchNext]_vars

\* the k-th recipient of the publish specification: "00" and k digits
Recipient(k) == <<"0", "0">> \o [j \in 1..k |-> "4"]
\* the lists of the first n recipients
RecipientLists == {[k \in 1..n |-> Recipient(k)] : n \in 0..MaxRecipients}

\* the request bodies of the publish specification
PublishBodies ==
    [mode : {"", "numbers", "group"}, recipients : RecipientLists,
     groupId : {<<>>, GroupId1}, caption : {"", "hi"}, mediaUrl : {"", "u"},
     mediaType : {"image", "video"}]

\* the session lifecycle without /initialize requests (the start-up auto-connect
\* and the reconnects make the transports), and one POST /publish
PublishNext ==
    \/ TransportEvents
    \/ BackgroundConnect
    \/ Logout
    \/ \E body \in PublishBodies : PublishStart(body)
    \/ PublishSendResolve
    \/ PublishSendReject

PublishSpec == Init /\ [][PublishNext]_vars

\* ================================================================ claims

\* C1: in every reachable state the stored pairing code is non-null exactly
\* when connectionStatus is 'qr_ready'.
C1_PairingCodeIffQrReady ==
    (qrCodeData # Null) <=> (connectionStatus = "qr_ready")

\* A pairing code is stored while two transports are live and a logout has returned.
C1_Witness ==
    /\ qrCodeData # Null
    /\ Cardinality(LiveTransports) = 2
    /\ logoutReq.results # <<>>

\* C2: in every reachable state sock is non-null exactly when connectionStatus
\* is not 'disconnected'.
C2_HandleIffNotDisconnected ==
    (sock # Null) <=> (connectionStatus # "disconnected")

\* C3: at most one transport instance is live (allocated and not closed) at any time.
C3_AtMostOneLiveTransport ==
    Cardinality(LiveTransports) <= 1

\* C4: a close event with the loggedOut reason leaves connectionStatus
\* 'disconnected', schedules no reconnect, releases the handle and deletes the
\* persisted credentials.
C4_LoggedOutCloseResets ==
    [][(\E t \in Transports : TransportClose(t, loggedOut))
         => /\ connectionStatus' = "disconnected"
            /\ timers' = timers
            /\ sock' = Null
            /\ authDir' # "creds"]_vars

\* C5: once a close event with another reason has scheduled the backoff timer,
\* eventually a new transport is the handle and connectionStatus is 'initializing'.
C5_RecoverableCloseLeadsToInitializing ==
    (timers > 0) ~> (sock # Null /\ Live(sock) /\ connectionStatus = "initializing")

\* the state POST /logout is to leave
LoggedOut ==
    /\ connectionStatus = "disconnected"
    /\ ~isConnected
    /\ qrCodeData = Null
    /\ sock = Null
    /\ authDir # "creds"

\* a POST /logout responds in this step
LogoutReturns == Len(logoutReq'.results) = Len(logoutReq.results) + 1

\* C6: every POST /logout responds with success and leaves the logged-out state.
C6_LogoutAlwaysSucceeds ==
    [][LogoutReturns
         => /\ logoutReq'.results[Len(logoutReq'.results)] = "ok"
            /\ LoggedOut']_vars

\* C7: when the second of two POST /logout calls made one after the other
\* responds, both calls have succeeded and the state is the logged-out state.
C7_LogoutTwice ==
    [][(LogoutReturns /\ Len(logoutReq'.results) = 2)
         => /\ logoutReq'.results = <<"ok", "ok">>
            /\ LoggedOut']_vars

\* a POST /initialize responds in this step
InitReturns(r) == initReq[r].pc # "done" /\ initReq'[r].pc = "done"

\* the sleeps request r has finished when it responds in this step
PollsAtReturn(r) == IF initReq[r].pc = "polling" THEN initReq[r].attempts + 1 ELSE 0

C9_TimeoutKeepsAttempt ==
    [][/\ \A r \in InitReqs :
            (InitReturns(r) /\ initReq'[r].result = "failed")
                => UNCHANGED <<session, transport, timers, authDir, bgConnect>>
       /\ \A r \in InitReqs, t \in Transports :
            (initReq[r].result = "failed" /\ initReq[r].tr = t /\ TransportOpen(t))
                => (isConnected' /\ connectionStatus' = "connected")]_vars

\* The transport a timed-out request allocated has opened and is the connected handle.
C9_Witness ==
    \E r \in InitReqs :
        /\ initReq[r].result = "failed"
        /\ initReq[r].tr = sock
        /\ sock # Null
        /\ transport[sock] = "open"
        /\ isConnected
        /\ connectionStatus = "connected"

\* C10: a GET /groups or POST /publish that arrives while connectionStatus is
\* not 'connected' answers NotConnected and calls nothing on the transport.
C10_DispatchNeedsConnectedPhase ==
    [][/\ (groupsReq.pc = "idle" /\ groupsReq'.pc # "idle"
             /\ connectionStatus # "connected")
            => (groupsReq'.result = "NotConnected" /\ groupsReq'.on = Null)
       /\ (pubReq.pc = "idle" /\ pubReq'.pc # "idle"
             /\ connectionStatus # "connected")
            => (pubReq'.result = "NotConnected" /\ pubReq'.sends = <<>>)]_vars

\* the phone number strings: every string over Alphabet up to MaxLen characters,
\* and two written-out numbers
Alphabet == {"0", "4", "+", " "}
Number0044 == <<"0", "0", "4", "4", "1", "2", "3", "4", "5", "6", "7", "8", "9">>
NumberPlus44 == <<"+", "4", "4", " ", "1", "2", "3", "-", "4", "5", "6", "-", "7", "8", "9">>
PhoneNumbers ==
    UNION {[1..n -> Alphabet] : n \in 0..MaxLen} \cup {Number0044, NumberPlus44}

\* POST /publish bodies with one recipient, any phone number string
FormatBodies ==
    [mode : {"numbers"}, recipients : {<<number>> : number \in PhoneNumbers},
     groupId : {<<>>}, caption : {"hi"}, mediaUrl : {""}, mediaType : {"image"}]

\* POST /publish of any phone number string beside the session
FormatNext ==
    \/ TransportEvents
    \/ BackgroundConnect
    \/ \E body \in FormatBodies : PublishStart(body)
    \/ PublishSendResolve
    \/ PublishSendReject

FormatSpec == Init /\ [][FormatNext]_vars

\* a body that misses mode or caption, or addresses no target
NoTarget(body) ==
    \/ body.mode = ""
    \/ body.caption = ""
    \/ (body.mode = "numbers" /\ body.recipients = <<>>)
    \/ (body.mode = "group" /\ body.groupId = <<>>)

\* C11: while connected, a POST /publish whose body misses mode or caption, or
\* whose mode addresses no target, answers InvalidRequest and sends nothing.
C11_InvalidRequestRejected ==
    [][\A body \in PublishBodies :
         (PublishStart(body) /\ ~NotConnected /\ connectionStatus = "connected"
            /\ NoTarget(body))
           => (pubReq'.result = "InvalidRequest" /\ pubReq'.sends = <<>>)]_vars

\* the POST /publish responds in this step, after at least one send
PublishReturns == pubReq.pc = "awaitSend" /\ pubReq'.pc = "done"

\* C12: a numbers-mode POST /publish responds with one entry per recipient, in
\* the order of the recipients; entry i succeeded exactly when a send for
\* recipient i resolved; after a rejected send the send of the next recipient
\* is issued.
C12_PerRecipientOutcome ==
    [][/\ (PublishReturns /\ NumbersBranch(pubReq.body)) =>
            LET rs == pubReq.body.recipients
                res == pubReq'.results
                snd == pubReq'.sends
            IN  /\ Len(res) = Len(rs)
                /\ \A i \in 1..Len(rs) :
                     /\ res[i].recipient = rs[i]
                     /\ res[i].success <=>
                          \E k \in 1..Len(snd) : snd[k].idx = i /\ snd[k].ok = "yes"
       /\ (PublishSendReject /\ NumbersBranch(pubReq.body) /\ sock # Null
             /\ pubReq.i < Len(pubReq.body.recipients))
            => /\ pubReq'.pc = "awaitSend"
               /\ pubReq'.sends[Len(pubReq'.sends)].idx = pubReq.i + 1]_vars

\* Three recipients, the second send failed, the first and third succeeded.
C12_Witness ==
    /\ pubReq.pc = "done"
    /\ Len(pubReq.results) = 3
    /\ pubReq.results[1].success
    /\ ~pubReq.results[2].success
    /\ pubReq.results[3].success
    /\ Len(pubReq.sends) = 3

\* C13: the success flag of a POST /publish response is the conjunction of the
\* success flags of its entries, and the response carries one entry per target.
C13_SuccessIsConjunction ==
    /\ [](pubReq.pc = "done" /\ pubReq.result \in {"success", "someFailed"}
            => (pubReq.result = "success"
                  <=> \A k \in 1..Len(pubReq.results) : pubReq.results[k].success))
    /\ [][PublishReturns
            => /\ pubReq'.result \in {"success", "someFailed"}
               /\ Len(pubReq'.results) = Len(Targets(pubReq.body))]_vars

\* A response with a succeeded and a failed entry, and success false.
C13_Witness ==
    /\ pubReq.pc = "done"
    /\ pubReq.result = "someFailed"
    /\ \E j, k \in 1..Len(pubReq.results) :
         pubReq.results[j].success /\ ~pubReq.results[k].success

\* C14: a group-mode POST /publish with a groupId issues one send, to the group
\* id, a media message exactly when mediaUrl is given, none to a recipient, and
\* responds with one entry.
C14_GroupPublishOneSend ==
    [][/\ \A body \in PublishBodies :
            (PublishStart(body) /\ ~NotConnected /\ body.mode = "group"
               /\ body.groupId # <<>> /\ body.caption # "")
              => /\ pubReq'.pc = "awaitSend"
                 /\ Len(pubReq'.sends) = 1
                 /\ pubReq'.sends[1].to = body.groupId
                 /\ (pubReq'.sends[1].kind = "text") <=> (body.mediaUrl = "")
       /\ (pubReq.pc = "awaitSend" /\ pubReq.body.mode = "group"
             /\ pubReq.body.groupId # <<>> /\ pubReq' # pubReq)
            => /\ pubReq'.pc = "done"
               /\ Len(pubReq'.sends) = 1
               /\ Len(pubReq'.results) = 1]_vars

\* A group publish with three recipients supplied has issued its one send, a video.
C14_Witness ==
    /\ pubReq.pc = "awaitSend"
    /\ pubReq.body.mode = "group"
    /\ Len(pubReq.body.recipients) = 3
    /\ Len(pubReq.sends) = 1
    /\ pubReq.sends[1].to = GroupId1
    /\ pubReq.sends[1].kind = "video"

\* the decimal digits of s, in order
RECURSIVE DigitsOf(_)
DigitsOf(s) ==
    IF s = <<>> THEN <<>>
    ELSE (IF Head(s) \in Digits THEN <<Head(s)>> ELSE <<>>) \o DigitsOf(Tail(s))

\* the digits of s without one leading '00', followed by the suffix
Normalized(s) ==
    LET D == DigitsOf(s)
    IN  (IF Len(D) >= 2 /\ SubSeq(D, 1, 2) = <<"0", "0">> THEN SubSeq(D, 3, Len(D)) ELSE D)
          \o Suffix

Address44 == <<"4", "4", "1", "2", "3", "4", "5", "6", "7", "8", "9">> \o Suffix

\* C15: the address a send is issued to is the digits of the recipient string,
\* without one leading '00', followed by '@s.whatsapp.net'; '0044123456789' and
\* '+44 123-456-789' both give '44123456789@s.whatsapp.net', and the empty
\* string gives the suffix alone.
C15_AddressNormalization ==
    /\ [][\A body \in FormatBodies :
            (PublishStart(body) /\ ~NotConnected)
              => /\ pubReq'.pc = "awaitSend"
                 /\ pubReq'.sends[1].to = Normalized(body.recipients[1])]_vars
    /\ [](pubReq.pc = "awaitSend" /\ NumbersBranch(pubReq.body) =>
            LET number == pubReq.body.recipients[pubReq.i]
                to == pubReq.sends[Len(pubReq.sends)].to
            IN  /\ number \in {Number0044, NumberPlus44} => to = Address44
                /\ number = <<>> => to = Suffix
                /\ number = <<"0", "0", "0", "0">> => to = <<"0", "0">> \o Suffix)

\* A send to '+44 123-456-789' has been issued to '44123456789@s.whatsapp.net'.
C15_Witness ==
    /\ pubReq.pc = "awaitSend"
    /\ pubReq.body.recipients = <<NumberPlus44>>
    /\ pubReq.sends[1].to = Address44

\* C16: a qr, open or close event of a transport that is not the handle changes
\* none of connectionStatus, isConnected and qrCodeData and schedules no reconnect.
C16_StaleEventsDiscarded ==
    [][\A t \in Transports :
         (/\ t # sock
          /\ \/ \E code \in Codes : TransportQr(t, code)
             \/ TransportOpen(t)
             \/ \E reason \in Reasons : TransportClose(t, reason))
           => UNCHANGED <<qrCodeData, isConnected, connectionStatus, timers>>]_vars

\* the last POST /logout has succeeded and no POST /initialize was accepted since
LoggedOutSinceLogout ==
    /\ logoutReq.results # <<>>
    /\ logoutReq.results[Len(logoutReq.results)] = "ok"
    /\ sock = Null
    /\ connectionStatus = "disconnected"
    /\ \A r \in InitReqs : initReq[r].pc \notin {"connAuth", "connVersion"}

\* C17: after a POST /logout has succeeded, until a POST /initialize is accepted,
\* no transport is allocated and connectionStatus stays 'disconnected'.
C17_StaysLoggedOut ==
    [][(LoggedOutSinceLogout /\ ~\E r \in InitReqs : InitializeStart(r))
         => (sock' = Null /\ connectionStatus' = "disconnected")]_vars

\* C18: isConnected is true exactly when connectionStatus is 'connected', and
\* then the handle is non-null.
C18_ConnectedFlagMatchesStatus ==
    /\ isConnected <=> connectionStatus = "connected"
    /\ isConnected => sock # Null

\* the sends so far are for increasing recipients, and all but the last are settled
SendsSequential ==
    \A k \in 1..(Len(pubReq.sends) - 1) :
      /\ pubReq.sends[k].idx < pubReq.sends[k + 1].idx
      /\ pubReq.sends[k].ok # "pending"

\* the sends issued for recipient i
SendsFor(req, i) == {k \in 1..Len(req.sends) : req.sends[k].idx = i}

\* C19 as stated: a numbers-mode POST /publish has issued exactly one send per
\* recipient when it responds, in the order of the recipients, each after the
\* send before it was settled.
C19_ExactlyOneSendPerRecipient ==
    /\ [](SendsSequential)
    /\ [][(PublishReturns /\ NumbersBranch(pubReq.body))
            => \A i \in 1..Len(pubReq.body.recipients) :
                 Cardinality(SendsFor(pubReq', i)) = 1]_vars

\* C19 amended: a numbers-mode POST /publish issues at most one send per
\* recipient, exactly one while sock is non-null at the recipient's turn and none
\* once sock is null; sends are in the order of the recipients, and the send
\* for the next recipient is issued in the step that settles the send before it.
C19_AtMostOneSendPerRecipient ==
    /\ [](SendsSequential)
    /\ [][(pubReq.pc = "awaitSend" /\ NumbersBranch(pubReq.body) /\ pubReq' # pubReq) =>
            LET n == Len(pubReq.body.recipients)
                issued == Len(pubReq.sends)
            IN  /\ pubReq.sends[issued].idx = pubReq.i
                /\ pubReq'.sends[issued].ok # "pending"
                /\ IF sock # Null /\ pubReq.i < n
                   THEN /\ pubReq'.pc = "awaitSend"
                        /\ Len(pubReq'.sends) = issued + 1
                        /\ pubReq'.sends[issued + 1].idx = pubReq.i + 1
                        /\ pubReq'.sends[issued + 1].ok = "pending"
                   ELSE /\ pubReq'.pc = "done"
                        /\ Len(pubReq'.sends) = issued
                        /\ \A i \in 1..n : Cardinality(SendsFor(pubReq', i)) <= 1]_vars

\* Three recipients, two sends: sock was null at the third recipient's turn.
C19_Witness ==
    /\ pubReq.pc = "done"
    /\ Len(pubReq.results) = 3
    /\ Len(pubReq.sends) = 2
    /\ pubReq.sends[1].idx = 1
    /\ pubReq.sends[2].idx = 2
    /\ pubReq.sends[1].ok = "no"
    /\ sock = Null

\* C20: a POST /publish that has passed its guard responds with one entry per
\* target, whatever POST /logout or close event interleaves; a target whose send
\* was not issued, or was issued on a closed transport, has a failed entry; the
\* response is never the error of the whole request.
C20_PublishRunsToCompletion ==
    /\ [](pubReq.result # "error")
    /\ [][PublishReturns =>
            LET n == Len(Targets(pubReq.body))
            IN  /\ pubReq'.result \in {"success", "someFailed"}
                /\ Len(pubReq'.results) = n
                /\ \A i \in 1..n :
                     (\/ SendsFor(pubReq', i) = {}
                      \/ \E k \in SendsFor(pubReq', i) : pubReq'.sends[k].dead)
                       => ~pubReq'.results[i].success]_vars

\* POST /logout succeeded after the first of three sends: one succeeded entry,
\* two failed ones, and the response is sent.
C20_Witness ==
    /\ pubReq.pc = "done"
    /\ pubReq.result = "someFailed"
    /\ Len(pubReq.results) = 3
    /\ Len(pubReq.sends) = 1
    /\ pubReq.results[1].success
    /\ ~pubReq.results[2].success
    /\ ~pubReq.results[3].success
    /\ logoutReq.results # <<>>

====
